---- MODULE Spec2Model ----
(***************************************************************************)
(* Model of the i18next translation validator (src/src/i18n_validator/     *)
(* cli.py): the two detector rules, the per-file validator, the path       *)
(* filter and the main loop.                                               *)
(*                                                                         *)
(* Text the code inspects character by character (translation values,     *)
(* paths, directory filters) is a sequence of one-character strings.      *)
(* Text the code only builds or copies (keys, error types, messages) is a *)
(* TLA+ string; Str converts the former to the latter.                     *)
(***************************************************************************)
EXTENDS Integers, Sequences, FiniteSets, TLC

VARIABLES
    data,       \* detectors: the decoded JSON value handed to a rule
    rule,       \* detectors: "none" before the call, then the rule that ran
    found,      \* detectors: the list of ValidationError the rule returned
    filepath,           \* path filter: the candidate Path (as str() gives it)
    translation_dirs,   \* path filter: the list of directory strings
    in_scope,           \* path filter: <<>> before the call, then <<result>>
    fs,         \* the file system: path |-> what reading and parsing that file gives
    vpath,      \* file validator: the Path handed to validate_translation_file
    vresults,   \* file validator: the (is_valid, errors) pairs returned so far
    args,       \* main: the parsed arguments (filenames, translation_dir)
    pc,         \* main: "start", "loop", "print" or "done"
    idx,        \* main: position of the loop in args.filenames
    exit_code,  \* main: exit_code
    files_with_errors,  \* main: the dict, as its (filename, errors) items in order
    stdout,     \* main: the lines printed
    validated,  \* main: the filenames validate_translation_file was called for
    returned    \* main: <<>> while running, then <<the value returned>>

detVars == <<data, rule, found>>
filterVars == <<filepath, translation_dirs, in_scope>>
validatorVars == <<vpath, vresults>>
mainVars == <<args, pc, idx, exit_code, files_with_errors, stdout, validated, returned>>
vars == <<data, rule, found, filepath, translation_dirs, in_scope, fs, vpath, vresults,
          args, pc, idx, exit_code, files_with_errors, stdout, validated, returned>>

\* ------------------------------------------------------------ bounds

\* entries of a catalog
MaxEntries == 3
\* characters that follow the candidate suffix in a probed value
MaxTail == 1
\* characters of a candidate path handed to Path()
MaxPathLen == 3
\* characters of a translation-directory string
MaxDirLen == 3
\* directories in a filter list of more than one directory
MaxDirs == 2
\* calls of validate_translation_file on one file
MaxCalls == 2
\* filenames on the command line
MaxFiles == 2

\* ------------------------------------------------------------ exit codes

PASS == 0
FAIL == 1

\* ------------------------------------------------------------ text

RECURSIVE Str(_)
Str(s) == IF s = <<>> THEN "" ELSE Head(s) \o Str(Tail(s))

\* s[i..] starts with lit (1-based)
LiteralAt(s, i, lit) ==
    /\ i + Len(lit) - 1 <= Len(s)
    /\ SubSeq(s, i, i + Len(lit) - 1) = lit

\* str.endswith
EndsWith(s, lit) == Len(lit) <= Len(s) /\ LiteralAt(s, Len(s) - Len(lit) + 1, lit)

\* ------------------------------------------------------------ findings

ValidationError(key, error_type, message) ==
    [key |-> key, error_type |-> error_type, message |-> message]

\* ------------------------------------------------------------ rule: empty values

\* the rule with 'value.strip() == ""' for 'value == ""'
EmptyLoopStripped(items, errors) ==
    LET Blank(v) == \A i \in 1..Len(v) : v[i] \in {" ", "\n", "\t"}
        hit == SelectSeq(items, LAMBDA e : e.value.t = "str" /\ Blank(e.value.v))
    IN  errors \o [i \in 1..Len(hit) |->
                      ValidationError(hit[i].key, "Empty translation",
                                      "translation value is an empty string")]

\* the rule with 'if not value' for the isinstance test and the comparison:
\* None, 0 and empty containers are falsy as well
EmptyLoopFalsy(items, errors) ==
    LET hit == SelectSeq(items, LAMBDA e : e.value.v = <<>>)
    IN  errors \o [i \in 1..Len(hit) |->
                      ValidationError(hit[i].key, "Empty translation",
                                      "translation value is an empty string")]

RECURSIVE EmptyLoop(_, _)
EmptyLoop(items, errors) ==
    IF items = <<>> THEN errors
    ELSE LET key == Head(items).key
             value == Head(items).value
         IN  EmptyLoop(Tail(items),
                 IF value.t = "str" /\ value.v = <<>>
                 THEN Append(errors, ValidationError(key, "Empty translation",
                                         "translation value is an empty string"))
                 ELSE errors)

find_empty_translations(d) ==
    IF d.t = "dict" THEN EmptyLoop(d.items, <<>>) ELSE <<>>

\* ------------------------------------------------------------ rule: plural suffixes

\* the alternatives of r'_(zero|one|two|few|many|other)$', in pattern order
PluralAlternatives ==
    << <<"z","e","r","o">>, <<"o","n","e">>, <<"t","w","o">>,
       <<"f","e","w">>, <<"m","a","n","y">>, <<"o","t","h","e","r">> >>

\* '$' without re.MULTILINE: the end of the string, or just before a
\* newline that is the string's last character
DollarAt(s, i) == i = Len(s) + 1 \/ (i = Len(s) /\ s[i] = "\n")

\* the alternatives with which the whole pattern matches at position i
MatchAt(s, i) ==
    { k \in 1..Len(PluralAlternatives) :
        /\ LiteralAt(s, i, <<"_">>)
        /\ LiteralAt(s, i + 1, PluralAlternatives[k])
        /\ DollarAt(s, i + 1 + Len(PluralAlternatives[k])) }

Min(S) == CHOOSE x \in S : \A y \in S : x <= y

\* the pattern with the suffix group optional, r'(_(zero|...|other))?$': a
\* value without a suffix matches with an empty group
PLURAL_SUFFIXES_Optional(s) ==
    LET starts == { i \in 1..Len(s) : MatchAt(s, i) # {} }
    IN  IF starts = {} THEN [matched |-> TRUE, group0 |-> <<>>]
        ELSE [matched |-> TRUE,
              group0 |-> <<"_">> \o PluralAlternatives[Min(MatchAt(s, Min(starts)))]]

\* PLURAL_SUFFIXES.search(value): the leftmost match, the first alternative
\* that matches there; group0 is match.group(0)
PLURAL_SUFFIXES(s) ==
    LET starts == { i \in 1..Len(s) : MatchAt(s, i) # {} }
    IN  IF starts = {} THEN [matched |-> FALSE, group0 |-> <<>>]
        ELSE [matched |-> TRUE,
              group0 |-> <<"_">> \o PluralAlternatives[Min(MatchAt(s, Min(starts)))]]

RECURSIVE PluralLoop(_, _)
PluralLoop(items, errors) ==
    IF items = <<>> THEN errors
    ELSE LET key == Head(items).key
             value == Head(items).value
             match == PLURAL_SUFFIXES(value.v)
         IN  PluralLoop(Tail(items),
                 IF value.t = "str" /\ match.matched
                 THEN Append(errors, ValidationError(key, "Plural suffix in value",
                          "contains \"" \o Str(match.group0)
                              \o "\" (should be in key, not value)"))
                 ELSE errors)

find_plural_suffix_in_values(d) ==
    IF d.t = "dict" THEN PluralLoop(d.items, <<>>) ELSE <<>>

\* ------------------------------------------------------------ inputs of the rules

\* all sequences over S of length at most n
SeqsUpTo(S, n) == UNION { [1..k -> S] : k \in 0..n }

StrVal(s) == [t |-> "str", v |-> s]
\* a decoded JSON value that is not a string: only its type is looked at
OtherVal(t) == [t |-> t, v |-> <<>>]

TheSixSuffixes == { <<"_">> \o PluralAlternatives[k] : k \in 1..Len(PluralAlternatives) }

Heads == { <<>>, <<"x">>, <<"_","o","n","e"," ">>, <<"x","_","t","w","o">> }
Cores == TheSixSuffixes \cup
         { <<>>, <<"_","O","N","E">>, <<"_","O","n","e">>, <<"o","n","e">>,
           <<"_","o","n">>, <<"_","o","n","e","s">>, <<"-","o","n","e">> }
TailChars == { "\n", ".", " ", "!", "_", "e" }

\* values probed one at a time: head, candidate suffix, trailing characters
ProbeValues == { h \o c \o t : h \in Heads, c \in Cores, t \in SeqsUpTo(TailChars, MaxTail) }

\* values of the catalogs with several entries
CatalogValues ==
    { StrVal(<<>>), StrVal(<<" ">>), StrVal(<<"\n">>), StrVal(<<"\t">>),
      StrVal(<<"H","i">>), StrVal(<<"x","_","o","n","e">>),
      StrVal(<<"_","o","t","h","e","r">>),
      OtherVal("int"), OtherVal("NoneType"), OtherVal("dict"), OtherVal("list") }

KeyPool == <<"welcome", "hello", "goodbye", "thanks">>
Keys == { KeyPool[i] : i \in 1..Len(KeyPool) }

\* sequences of n distinct keys
KeySeqs(n) == { ks \in [1..n -> Keys] : \A i, j \in 1..n : i # j => ks[i] # ks[j] }

\* entries of a catalog: no more than there are keys
EntryCounts == 0..(IF MaxEntries < Len(KeyPool) THEN MaxEntries ELSE Len(KeyPool))

\* dicts keep insertion order and have unique keys
Catalog(ks, vals) == [i \in 1..Len(ks) |-> [key |-> ks[i], value |-> vals[i]]]

Dict(items) == [t |-> "dict", items |-> items]
NonDict(t) == [t |-> t, items |-> <<>>]

NonDictTypes == {"list", "str", "int", "bool", "NoneType"}

\* ------------------------------------------------------------ path filter

\* str.replace(old, new) for one-character old and new
Replace(s, old, new) == [i \in 1..Len(s) |-> IF s[i] = old THEN new ELSE s[i]]

\* str.rstrip(c) for a one-character c
RECURSIVE RStrip(_, _)
RStrip(s, c) ==
    IF s # <<>> /\ s[Len(s)] = c THEN RStrip(SubSeq(s, 1, Len(s) - 1), c) ELSE s

\* needle in hay
Contains(hay, needle) == \E i \in 1..(Len(hay) + 1) : LiteralAt(hay, i, needle)

\* str.startswith
StartsWith(s, lit) == LiteralAt(s, 1, lit)

\* str.split(sep) for a one-character sep: never empty, keeps empty pieces
RECURSIVE Split(_, _)
Split(s, sep) ==
    IF \A i \in 1..Len(s) : s[i] # sep THEN << s >>
    ELSE LET k == Min({ i \in 1..Len(s) : s[i] = sep })
         IN  << SubSeq(s, 1, k - 1) >> \o Split(SubSeq(s, k + 1, Len(s)), sep)

\* sep.join(parts)
RECURSIVE Join(_, _)
Join(parts, sep) ==
    IF parts = <<>> THEN <<>>
    ELSE IF Len(parts) = 1 THEN parts[1]
    ELSE parts[1] \o sep \o Join(Tail(parts), sep)

\* str(Path(raw)) on a POSIX platform: one leading slash is the root, exactly
\* two are kept, three or more collapse to one; empty and "." components are
\* dropped; the empty path is "."
Path(raw) ==
    LET lead == IF \A i \in 1..Len(raw) : raw[i] = "/" THEN Len(raw)
                ELSE Min({ i \in 1..Len(raw) : raw[i] # "/" }) - 1
        root == IF lead = 0 THEN <<>> ELSE IF lead = 2 THEN <<"/", "/">> ELSE <<"/">>
        parts == SelectSeq(Split(raw, "/"), LAMBDA x : x # <<>> /\ x # <<".">>)
    IN  IF root = <<>> /\ parts = <<>> THEN <<".">> ELSE root \o Join(parts, <<"/">>)

\* line 143: trans_dir.rstrip('/').rstrip('\\').replace('\\', '/')
NormalizeDir(trans_dir) == Replace(RStrip(RStrip(trans_dir, "/"), "\\"), "\\", "/")

\* lines 147-148: the test made for one directory
DirMatches(filepath_str, trans_dir_normalized) ==
    \/ Contains(<<"/">> \o filepath_str \o <<"/">>,
                <<"/">> \o trans_dir_normalized \o <<"/">>)
    \/ StartsWith(filepath_str, trans_dir_normalized \o <<"/">>)

\* the loop with 'return False' inside it: only the first directory is tried
DirLoopFirstOnly(filepath_str, dirs) ==
    dirs # <<>> /\ DirMatches(filepath_str, NormalizeDir(Head(dirs)))

RECURSIVE DirLoop(_, _)
DirLoop(filepath_str, dirs) ==
    IF dirs = <<>> THEN FALSE
    ELSE IF DirMatches(filepath_str, NormalizeDir(Head(dirs))) THEN TRUE
    ELSE DirLoop(filepath_str, Tail(dirs))

should_process_file(path, dirs) ==
    IF dirs = <<>> THEN TRUE
    ELSE DirLoop(Replace(path, "\\", "/"), dirs)

\* ------------------------------------------------------------ inputs of the path filter

PathChars == { "a", "A", "/", "\\", "." }

RawPaths == SeqsUpTo(PathChars, MaxPathLen)
DirStrings == SeqsUpTo(PathChars, MaxDirLen)
ShortDirStrings == SeqsUpTo(PathChars, 1)

FilterLists ==
    { <<>> } \cup { << d >> : d \in DirStrings }
    \cup UNION { [1..n -> ShortDirStrings] : n \in 2..MaxDirs }

\* ------------------------------------------------------------ file validator

\* What open() and json.load() give for a file. kind is "missing", "denied",
\* "directory", "undecodable" (bytes that are not UTF-8), "malformed" (not
\* JSON; msg, lineno, colno are the JSONDecodeError's) or "json" (data is
\* the decoded value).
FileState(kind, d, msg, lineno, colno) ==
    [kind |-> kind, data |-> d, msg |-> msg, lineno |-> lineno, colno |-> colno]

Missing == FileState("missing", NonDict("NoneType"), "", 0, 0)
Denied == FileState("denied", NonDict("NoneType"), "", 0, 0)
Directory == FileState("directory", NonDict("NoneType"), "", 0, 0)
Undecodable == FileState("undecodable", NonDict("NoneType"), "", 0, 0)
Malformed(msg, lineno, colno) == FileState("malformed", NonDict("NoneType"), msg, lineno, colno)
Json(d) == FileState("json", d, "", 0, 0)

\* the file at a path; a path the file system does not hold is a missing file
FileAt(files, path) == IF path \in DOMAIN files THEN files[path] ELSE Missing

\* what json.load gives for a file of no bytes
EmptyFile == Malformed("Expecting value", 1, 1)

\* a mode that truncates, in place of line 99's
OpenModeWrite == "w"

\* line 99: the mode the file is opened in
OpenMode == "r"

\* line 99: the file system once open(path, mode) has returned or raised.
\* Mode 'r' creates nothing and writes nothing; mode 'w' creates the file or
\* truncates it, unless the open itself is refused
Open(files, path, mode) ==
    IF mode = "w" /\ FileAt(files, path).kind \notin {"denied", "directory"}
    THEN [p \in DOMAIN files \cup {path} |-> IF p = path THEN EmptyFile ELSE files[p]]
    ELSE files

\* lines 100-101: what the with-block raises, if anything, and str(e)
Load(files, path) ==
    LET f == FileAt(files, path)
        quoted == "'" \o Str(path) \o "'"
    IN  CASE f.kind = "json" -> [raised |-> "none", text |-> ""]
          [] f.kind = "malformed" -> [raised |-> "JSONDecodeError", text |-> f.msg]
          [] f.kind = "missing" ->
                [raised |-> "FileNotFoundError",
                 text |-> "[Errno 2] No such file or directory: " \o quoted]
          [] f.kind = "denied" ->
                [raised |-> "PermissionError",
                 text |-> "[Errno 13] Permission denied: " \o quoted]
          [] f.kind = "directory" ->
                [raised |-> "IsADirectoryError",
                 text |-> "[Errno 21] Is a directory: " \o quoted]
          [] OTHER ->
                [raised |-> "UnicodeDecodeError",
                 text |-> "'utf-8' codec can't decode byte 0xff in position 0: invalid start byte"]

\* lines 107-112
ParseErrorFinding(f) ==
    ValidationError("FILE", "JSON Parse Error",
        "Invalid JSON: " \o f.msg \o " at line " \o ToString(f.lineno)
            \o ", column " \o ToString(f.colno))

\* lines 113-118
ReadErrorFinding(text) ==
    ValidationError("FILE", "Error", "Failed to read file: " \o text)

\* both rules applied entry by entry in one pass over the catalog
RECURSIVE BothRulesLoop(_)
BothRulesLoop(items) ==
    IF items = <<>> THEN <<>>
    ELSE EmptyLoop(<< Head(items) >>, <<>>) \o PluralLoop(<< Head(items) >>, <<>>)
         \o BothRulesLoop(Tail(items))

ValidationErrorsOnePass(files, path) ==
    LET loaded == Load(files, path)
        d == FileAt(files, path).data
    IN  IF loaded.raised = "none"
        THEN (IF d.t = "dict" THEN BothRulesLoop(d.items) ELSE <<>>)
        ELSE IF loaded.raised = "JSONDecodeError"
        THEN << ParseErrorFinding(FileAt(files, path)) >>
        ELSE << ReadErrorFinding(loaded.text) >>

\* the handlers in the other order: 'except Exception' first takes every error
ValidationErrorsGenericFirst(files, path) ==
    LET loaded == Load(files, path)
        d == FileAt(files, path).data
    IN  IF loaded.raised = "none"
        THEN find_empty_translations(d) \o find_plural_suffix_in_values(d)
        ELSE << ReadErrorFinding(loaded.text) >>

\* lines 97-118: the errors list when the function returns
ValidationErrors(files, path) ==
    LET loaded == Load(files, path)
        d == FileAt(files, path).data
    IN  IF loaded.raised = "none"
        THEN find_empty_translations(d) \o find_plural_suffix_in_values(d)
        ELSE IF loaded.raised = "JSONDecodeError"
        THEN << ParseErrorFinding(FileAt(files, path)) >>
        ELSE << ReadErrorFinding(loaded.text) >>

\* is_valid taken from 'nothing was raised' instead of from the errors list
validate_translation_file_RaisedOnly(files, path) ==
    [is_valid |-> Load(files, path).raised = "none",
     errors |-> ValidationErrors(files, path)]

validate_translation_file(files, path) ==
    LET errors == ValidationErrors(files, path)
    IN  [is_valid |-> Len(errors) = 0, errors |-> errors]

\* ------------------------------------------------------------ main

\* str.lower() on the letters of the model's filenames
LowerChar(c) ==
    CASE c = "J" -> "j" [] c = "S" -> "s" [] c = "O" -> "o" [] c = "N" -> "n"
      [] c = "A" -> "a" [] c = "T" -> "t" [] c = "X" -> "x" [] OTHER -> c

Lower(s) == [i \in 1..Len(s) |-> LowerChar(s[i])]

\* PurePath.name of a Path given as str() gives it
PathName(p) ==
    IF p = <<".">> THEN <<>>
    ELSE LET slashes == { i \in 1..Len(p) : p[i] = "/" }
         IN  IF slashes = {} THEN p
             ELSE SubSeq(p, (CHOOSE k \in slashes : \A j \in slashes : j <= k) + 1, Len(p))

\* PurePath.suffix: from the last dot of the name, unless that dot is the
\* name's first or last character
PathSuffix(p) ==
    LET name == PathName(p)
        dots == { i \in 1..Len(name) : name[i] = "." }
    IN  IF dots = {} THEN <<>>
        ELSE LET i == CHOOSE d \in dots : \A e \in dots : e <= d
             IN  IF 1 < i /\ i < Len(name) THEN SubSeq(name, i, Len(name)) ELSE <<>>

\* line 196, negated
IsJsonFile(p) == \E suffix \in {PathSuffix(p)} : Lower(suffix) = <<".", "j", "s", "o", "n">>

\* line 183
TranslationDirs(a) == IF a.translation_dir # <<>> THEN << a.translation_dir >> ELSE <<>>

\* files_with_errors[filename] = errors on an insertion-ordered dict
DictSet(items, k, v) ==
    IF \E i \in 1..Len(items) : items[i].filename = k
    THEN [i \in 1..Len(items) |->
            IF items[i].filename = k THEN [filename |-> k, errors |-> v] ELSE items[i]]
    ELSE Append(items, [filename |-> k, errors |-> v])

\* ValidationError.__str__
ErrorLine(e) == "  - " \o e.error_type \o ": \"" \o e.key \o "\" - " \o e.message

\* lines 214-217, for one item of files_with_errors
RECURSIVE ErrorLines(_)
ErrorLines(errors) ==
    IF errors = <<>> THEN <<>> ELSE << ErrorLine(Head(errors)) >> \o ErrorLines(Tail(errors))

RECURSIVE PrintItems(_)
PrintItems(items) ==
    IF items = <<>> THEN <<>>
    ELSE << Str(Head(items).filename) \o ":" >> \o ErrorLines(Head(items).errors) \o << "" >>
         \o PrintItems(Tail(items))

\* lines 211-217
PrintResults(items) == IF items # <<>> THEN << "" >> \o PrintItems(items) ELSE <<>>

\* 'exit_code = PASS if is_valid else FAIL': the last file decides
NextExitCodeLastWins(code, is_valid) == IF ~is_valid THEN FAIL ELSE PASS

\* lines 206-207
NextExitCode(code, is_valid) == IF ~is_valid THEN FAIL ELSE code

\* lines 180-187
MainStart ==
    /\ pc = "start"
    /\ IF args.filenames = <<>>
       THEN pc' = "done" /\ returned' = << PASS >>
       ELSE pc' = "loop" /\ returned' = returned
    /\ UNCHANGED <<args, idx, exit_code, files_with_errors, stdout, validated,
                   fs, detVars, filterVars, validatorVars>>

\* the loop leaving at the first file that fails ('break' after line 208)
MainIterateStopOnFailure ==
    /\ pc = "loop"
    /\ idx <= Len(args.filenames)
    /\ \E path \in {Path(args.filenames[idx])} :
       LET filename == args.filenames[idx]
           skipped == ~IsJsonFile(path) \/ ~should_process_file(path, TranslationDirs(args))
           opened == Open(fs, path, OpenMode)
           r == validate_translation_file(opened, path)
       IN  /\ IF skipped
              THEN UNCHANGED <<exit_code, files_with_errors, validated, fs>>
              ELSE /\ fs' = opened
                   /\ validated' = Append(validated, filename)
                   /\ exit_code' = NextExitCode(exit_code, r.is_valid)
                   /\ files_with_errors' =
                         IF ~r.is_valid THEN DictSet(files_with_errors, filename, r.errors)
                         ELSE files_with_errors
           /\ pc' = IF idx = Len(args.filenames) \/ (~skipped /\ ~r.is_valid)
                    THEN "print" ELSE "loop"
    /\ idx' = idx + 1
    /\ UNCHANGED <<args, stdout, returned, detVars, filterVars, validatorVars>>

\* lines 192-208: one iteration of the loop
MainIterate ==
    /\ pc = "loop"
    /\ idx <= Len(args.filenames)
    /\ \E path \in {Path(args.filenames[idx])} :
       LET filename == args.filenames[idx]
       IN  IF ~IsJsonFile(path) \/ ~should_process_file(path, TranslationDirs(args))
           THEN UNCHANGED <<exit_code, files_with_errors, validated, fs>>
           ELSE LET opened == Open(fs, path, OpenMode)
                    r == validate_translation_file(opened, path)
                IN  /\ fs' = opened
                    /\ validated' = Append(validated, filename)
                    /\ exit_code' = NextExitCode(exit_code, r.is_valid)
                    /\ files_with_errors' =
                          IF ~r.is_valid THEN DictSet(files_with_errors, filename, r.errors)
                          ELSE files_with_errors
    /\ idx' = idx + 1
    /\ pc' = IF idx = Len(args.filenames) THEN "print" ELSE "loop"
    /\ UNCHANGED <<args, stdout, returned, detVars, filterVars, validatorVars>>

\* lines 210-219
MainPrint ==
    /\ pc = "print"
    /\ stdout' = stdout \o PrintResults(files_with_errors)
    /\ returned' = << exit_code >>
    /\ pc' = "done"
    /\ UNCHANGED <<args, idx, exit_code, files_with_errors, validated,
                   fs, detVars, filterVars, validatorVars>>

\* ------------------------------------------------------------ idle components

DetectIdle == data = NonDict("NoneType") /\ rule = "idle" /\ found = <<>>
FilterIdle == filepath = <<".">> /\ translation_dirs = <<>> /\ in_scope = <<>>
ValidatorIdle == vpath = <<".">> /\ vresults = <<>>
NoFiles == fs = <<>>
MainIdle ==
    /\ args = [filenames |-> <<>>, translation_dir |-> <<>>]
    /\ pc = "idle" /\ idx = 1 /\ exit_code = PASS /\ files_with_errors = <<>>
    /\ stdout = <<>> /\ validated = <<>> /\ returned = <<>>

\* ------------------------------------------------------------ specification of the file validator

\* catalogs whose keys are the first keys of KeyPool, in that order
OrderedCatalogs ==
    UNION { { [i \in 1..n |-> [key |-> KeyPool[i], value |-> vals[i]]] :
                vals \in [1..n -> CatalogValues] } : n \in 0..MaxEntries }

Malformations ==
    { Malformed(m, l, c) : m \in {"Expecting value", "Expecting ',' delimiter"},
                           l \in {1, 2}, c \in {1, 5} }

ValidatorFileStates ==
    { Missing, Denied, Directory, Undecodable } \cup Malformations
    \cup { Json(Dict(items)) : items \in OrderedCatalogs }
    \cup { Json(Dict(<< [key |-> "test_key", value |-> StrVal(s)] >>)) : s \in ProbeValues }
    \cup { Json(NonDict(t)) : t \in NonDictTypes }

ValidatorPath == Path(<<"t", "/", "a", ".", "j", "s", "o", "n">>)

ValidatorInit ==
    /\ vpath = ValidatorPath
    /\ fs \in [{ValidatorPath} -> ValidatorFileStates]
    /\ vresults = <<>>
    /\ DetectIdle /\ FilterIdle /\ MainIdle

\* lines 87-120: one call; the file is opened (line 99), then read and checked
CallValidate ==
    /\ Len(vresults) < MaxCalls
    /\ fs' = Open(fs, vpath, OpenMode)
    /\ vresults' = Append(vresults, validate_translation_file(fs', vpath))
    /\ UNCHANGED <<vpath, detVars, filterVars, mainVars>>

ValidatorNext == CallValidate

SpecValidate == ValidatorInit /\ [][ValidatorNext]_vars

\* ------------------------------------------------------------ specification of main

FileNamePool ==
    { <<"t", "/", "a", ".", "j", "s", "o", "n">>,
      <<"t", "/", "b", ".", "J", "S", "O", "N">>,
      <<"x", "/", "c", ".", "j", "s", "o", "n">>,
      <<"t", "/", "d", ".", "t", "x", "t">>,
      <<"t", "/", ".", "j", "s", "o", "n">> }

MainPaths ==
    { Path(<<"t", "/", "a", ".", "j", "s", "o", "n">>),
      Path(<<"t", "/", "b", ".", "J", "S", "O", "N">>),
      Path(<<"x", "/", "c", ".", "j", "s", "o", "n">>) }

MainFileStates ==
    { Missing, Malformed("Expecting value", 1, 1),
      Json(Dict(<< [key |-> "key", value |-> StrVal(<<"v">>)] >>)),
      Json(Dict(<< [key |-> "key", value |-> StrVal(<<>>)] >>)) }

TranslationDirOptions == { <<>>, <<"t">>, <<"x", "/">> }

MainInit ==
    /\ args \in [filenames : SeqsUpTo(FileNamePool, MaxFiles),
                  translation_dir : TranslationDirOptions]
    /\ fs \in [MainPaths -> MainFileStates]
    /\ pc = "start" /\ idx = 1 /\ exit_code = PASS /\ files_with_errors = <<>>
    /\ stdout = <<>> /\ validated = <<>> /\ returned = <<>>
    /\ DetectIdle /\ FilterIdle /\ ValidatorIdle

MainNext == MainStart \/ MainIterate \/ MainPrint

Spec == MainInit /\ [][MainNext]_vars

\* main runs to completion: a single thread, no step of it waits on anything
SpecLive == MainInit /\ [][MainNext]_vars /\ WF_vars(MainNext)

\* ------------------------------------------------------------ specification of the path filter

FilterInit ==
    /\ filepath \in { Path(raw) : raw \in RawPaths }
    /\ translation_dirs \in FilterLists
    /\ in_scope = <<>>
    /\ DetectIdle /\ ValidatorIdle /\ NoFiles /\ MainIdle

CallShouldProcessFile ==
    /\ in_scope = <<>>
    /\ in_scope' = << should_process_file(filepath, translation_dirs) >>
    /\ UNCHANGED <<filepath, translation_dirs, detVars, fs, validatorVars, mainVars>>

FilterNext == CallShouldProcessFile

SpecFilter == FilterInit /\ [][FilterNext]_vars

\* ------------------------------------------------------------ specification of the rules

DetectInit ==
    /\ \/ \E s \in ProbeValues :
             data = Dict(<< [key |-> "test_key", value |-> StrVal(s)] >>)
       \/ \E n \in EntryCounts : \E ks \in KeySeqs(n) : \E vals \in [1..n -> CatalogValues] :
             data = Dict(Catalog(ks, vals))
       \/ \E t \in NonDictTypes : data = NonDict(t)
    /\ rule = "none"
    /\ found = <<>>
    /\ FilterIdle /\ ValidatorIdle /\ NoFiles /\ MainIdle

CallFindEmpty ==
    /\ rule = "none"
    /\ rule' = "empty"
    /\ found' = find_empty_translations(data)
    /\ UNCHANGED <<data, filterVars, fs, validatorVars, mainVars>>

CallFindPlural ==
    /\ rule = "none"
    /\ rule' = "plural"
    /\ found' = find_plural_suffix_in_values(data)
    /\ UNCHANGED <<data, filterVars, fs, validatorVars, mainVars>>

DetectNext == CallFindEmpty \/ CallFindPlural

SpecDetect == DetectInit /\ [][DetectNext]_vars

\* ------------------------------------------------------------ claims about the rules

Flagged(key) == \E j \in 1..Len(found) : found[j].key = key

EndsWithPluralSuffix(v) == \E s \in TheSixSuffixes : EndsWith(v, s)

\* C1: a string value is flagged by find_plural_suffix_in_values iff it ends
\* with one of the six suffixes as its literal terminal substring, nothing
\* (not even a line break) following the suffix.
C1_FlaggedIffTerminalSuffix ==
    (rule = "plural" /\ data.t = "dict") =>
        \A i \in 1..Len(data.items) :
            data.items[i].value.t = "str" =>
                (Flagged(data.items[i].key) <=> EndsWithPluralSuffix(data.items[i].value.v))

EmptyFinding(key) ==
    ValidationError(key, "Empty translation", "translation value is an empty string")

FlatStringCatalog(d) ==
    d.t = "dict" /\ \A i \in 1..Len(d.items) : d.items[i].value.t = "str"

\* C2: for a flat string-valued mapping find_empty_translations returns one
\* finding per entry whose value is the zero-length string, none for any other
\* entry (whitespace-only values included), in catalog iteration order.
C2_EmptyFindingsExact ==
    (rule = "empty" /\ FlatStringCatalog(data)) =>
        LET empties == SelectSeq(data.items, LAMBDA e : Len(e.value.v) = 0)
        IN  /\ Len(found) = Len(empties)
            /\ Len(found) = Cardinality({ i \in 1..Len(data.items) :
                                            data.items[i].value.v = <<>> })
            /\ \A j \in 1..Len(found) : found[j] = EmptyFinding(empties[j].key)

\* C2 witness: a catalog with an empty value after a whitespace-only one and
\* before another empty one has been scanned.
C2_Witness ==
    /\ rule = "empty" /\ FlatStringCatalog(data) /\ Len(data.items) = 3
    /\ data.items[1].value.v = <<" ">>
    /\ data.items[2].value.v = <<>>
    /\ data.items[3].value.v = <<>>
    /\ data.items[2].key = "welcome" /\ data.items[3].key = "goodbye"
    /\ Len(found) = 2

PluralMessage(suffix) ==
    "contains \"" \o Str(suffix) \o "\" (should be in key, not value)"

\* C10: a flagged value gets exactly one finding, whose message names the
\* suffix that is the terminal substring of the value and carries the fixed
\* text "(should be in key, not value)".
C10_NamesTerminalSuffix ==
    (rule = "plural" /\ data.t = "dict") =>
        \A i \in 1..Len(data.items) :
            Flagged(data.items[i].key) =>
                /\ Cardinality({ j \in 1..Len(found) : found[j].key = data.items[i].key }) = 1
                /\ \E s \in TheSixSuffixes :
                      /\ EndsWith(data.items[i].value.v, s)
                      /\ \A j \in 1..Len(found) :
                            found[j].key = data.items[i].key =>
                                found[j].message = PluralMessage(s)

\* ------------------------------------------------------------ claims about the path filter

\* a directory string without its trailing separators, separators unified
RECURSIVE StripTrailingSeparators(_)
StripTrailingSeparators(d) ==
    IF d # <<>> /\ d[Len(d)] \in {"/", "\\"}
    THEN StripTrailingSeparators(SubSeq(d, 1, Len(d) - 1))
    ELSE Replace(d, "\\", "/")

\* the components of a path string, both separators alike
Components(x) == Split(Replace(x, "\\", "/"), "/")

\* a is a contiguous run of b
IsRun(a, b) == \E i \in 1..(Len(b) - Len(a) + 1) : SubSeq(b, i, i + Len(a) - 1) = a

\* C3: for a non-empty filter set the result is true iff some directory,
\* separators normalized, equals a contiguous run of full components of the
\* candidate path.
C3_TrueIffComponentRun ==
    (in_scope # <<>> /\ translation_dirs # <<>>) =>
        (in_scope[1] <=>
            \E k \in 1..Len(translation_dirs) :
                IsRun(Components(StripTrailingSeparators(translation_dirs[k])),
                      Components(filepath)))

SeparatorRuns == SeqsUpTo({"/", "\\"}, 2)

\* C7: a directory string and the same string followed by any run of
\* trailing separators give the same answer.
C7_TrailingSeparatorsInsignificant ==
    (in_scope # <<>> /\ Len(translation_dirs) = 1) =>
        \A r \in SeparatorRuns :
            should_process_file(filepath, << translation_dirs[1] \o r >>) = in_scope[1]

\* C8: the empty candidate path matches no non-empty filter set.
C8_EmptyPathNeverMatches ==
    (in_scope # <<>> /\ filepath = Path(<<>>) /\ translation_dirs # <<>>) =>
        in_scope[1] = FALSE

\* C9: every path is in scope of the empty filter set; for a non-empty set the
\* result is the disjunction of the single-directory results.
C9_DisjunctionOfSingles ==
    in_scope # <<>> =>
        in_scope[1] =
            IF Len(translation_dirs) = 0 THEN TRUE
            ELSE \E k \in 1..Len(translation_dirs) :
                    should_process_file(filepath, << translation_dirs[k] >>)

\* C9 witness: of two directories only the second matches, and the file is in scope.
C9_Witness ==
    /\ in_scope = << TRUE >>
    /\ Len(translation_dirs) = 2
    /\ ~should_process_file(filepath, << translation_dirs[1] >>)
    /\ should_process_file(filepath, << translation_dirs[2] >>)

\* ------------------------------------------------------------ claims about the file validator

\* C4: validate_translation_file returns for every file condition; a JSON
\* syntax error gives exactly one finding, key "FILE", of the parse-error kind,
\* its message carrying the parser's description, line and column; any other
\* read failure gives exactly one finding, key "FILE", of the read-error kind;
\* in both cases no detector finding is present.
C4_FailuresBecomeOneFileFinding ==
    \A n \in 1..Len(vresults) :
        LET f == FileAt(fs, vpath)
            errors == vresults[n].errors
        IN  /\ f.kind = "malformed" =>
                errors = << [key |-> "FILE", error_type |-> "JSON Parse Error",
                             message |-> "Invalid JSON: " \o f.msg \o " at line "
                                         \o ToString(f.lineno) \o ", column "
                                         \o ToString(f.colno)] >>
            /\ f.kind \in {"missing", "denied", "directory", "undecodable"} =>
                /\ Len(errors) = 1
                /\ errors[1].key = "FILE"
                /\ errors[1].error_type = "Error"
                /\ errors[1].message = "Failed to read file: " \o Load(fs, vpath).text
            /\ f.kind # "json" =>
                \A j \in 1..Len(errors) :
                    errors[j].error_type \notin {"Empty translation", "Plural suffix in value"}

\* C4 witness: a file that is not JSON at line 2, column 5 has been validated
\* and the result is the single parse-error finding.
C4_Witness ==
    /\ Len(vresults) >= 1
    /\ fs[vpath] = Malformed("Expecting ',' delimiter", 2, 5)
    /\ Len(vresults[1].errors) = 1
    /\ vresults[1].errors[1].error_type = "JSON Parse Error"
    /\ vresults[1].errors[1].message = "Invalid JSON: Expecting ',' delimiter at line 2, column 5"

\* C6: in every result of validate_translation_file the flag is true iff the
\* findings sequence is empty.
C6_OkIffNoFindings ==
    \A n \in 1..Len(vresults) : vresults[n].is_valid <=> (vresults[n].errors = <<>>)

\* C6 witness: a well-formed file with an empty value and a misplaced suffix
\* has been validated: two findings and the flag false.
C6_Witness ==
    /\ Len(vresults) >= 1
    /\ fs[vpath].kind = "json"
    /\ Len(vresults[1].errors) = 2
    /\ vresults[1].errors[1].error_type = "Empty translation"
    /\ vresults[1].errors[2].error_type = "Plural suffix in value"
    /\ vresults[1].is_valid = FALSE

\* ------------------------------------------------------------ claims about main

\* the file passes the extension filter and the path filter
InScope(filename) ==
    /\ IsJsonFile(Path(filename))
    /\ should_process_file(Path(filename), TranslationDirs(args))

FailsValidation(filename) == ~validate_translation_file(fs, Path(filename)).is_valid

\* C5: main returns FAIL iff some input file with a .json extension (any
\* letter case) that passes the path filter validates with ok = false, and
\* PASS otherwise, zero input files included.
C5_ExitStatus ==
    pc = "done" =>
        returned = << IF \E i \in 1..Len(args.filenames) :
                            InScope(args.filenames[i]) /\ FailsValidation(args.filenames[i])
                      THEN FAIL ELSE PASS >>

\* C5 witness: a run over two in-scope files, the first failing and the second
\* valid, with a directory filter given, has returned FAIL.
C5_Witness ==
    /\ pc = "done"
    /\ Len(args.filenames) = 2
    /\ args.translation_dir = <<"t">>
    /\ InScope(args.filenames[1]) /\ FailsValidation(args.filenames[1])
    /\ InScope(args.filenames[2]) /\ ~FailsValidation(args.filenames[2])
    /\ returned = << FAIL >>

\* ------------------------------------------------------------ claims about values that are not strings

\* the one-file file system whose file decodes to d
OneFile(d) == [p \in {ValidatorPath} |-> Json(d)]

\* C11: both rules return no finding for a decoded value that is not a
\* mapping, and none for a mapping entry whose value is not a string; a
\* well-formed file whose document is an array or a scalar validates with
\* ok = true and no findings.
C11_NonMappingAndNonStringIgnored ==
    rule \in {"empty", "plural"} =>
        /\ data.t # "dict" =>
              /\ found = <<>>
              /\ validate_translation_file(OneFile(data), ValidatorPath)
                    = [is_valid |-> TRUE, errors |-> <<>>]
        /\ data.t = "dict" =>
              \A i \in 1..Len(data.items) :
                  data.items[i].value.t # "str" => ~Flagged(data.items[i].key)

\* C11 witness: the empty-value rule has scanned a catalog holding a null, a
\* nested object and an empty string, and reported the empty string alone.
C11_Witness ==
    /\ rule = "empty" /\ data.t = "dict" /\ Len(data.items) = 3
    /\ data.items[1].value = OtherVal("NoneType")
    /\ data.items[2].value = OtherVal("dict")
    /\ data.items[3].value = StrVal(<<>>)
    /\ Len(found) = 1 /\ found[1].key = data.items[3].key

\* ------------------------------------------------------------ claims about repeated validation and order

IsEmptyFinding(e) == e.error_type = "Empty translation"
IsPluralFinding(e) == e.error_type = "Plural suffix in value"

\* the positions of the catalog entries the findings name, in finding order
EntryPositions(items, errors) ==
    [j \in 1..Len(errors) |->
        CHOOSE i \in 1..Len(items) : items[i].key = errors[j].key]

Increasing(ps) == \A i, j \in 1..Len(ps) : i < j => ps[i] < ps[j]

\* C13: for a parsed file the findings are all empty-value findings in
\* catalog order followed by all plural-suffix findings in catalog order; no
\* empty-value finding comes after a plural-suffix finding.
C13_EmptyThenPlural ==
    \A n \in 1..Len(vresults) :
        (fs[vpath].kind = "json" /\ fs[vpath].data.t = "dict") =>
            LET d == fs[vpath].data
                errors == vresults[n].errors
                empties == SelectSeq(errors, IsEmptyFinding)
                plurals == SelectSeq(errors, IsPluralFinding)
            IN  /\ Len(errors) = Len(empties) + Len(plurals)
                /\ \A i, j \in 1..Len(errors) :
                      (IsPluralFinding(errors[i]) /\ IsEmptyFinding(errors[j])) => j < i
                /\ empties = find_empty_translations(d)
                /\ plurals = find_plural_suffix_in_values(d)
                /\ Increasing(EntryPositions(d.items, empties))
                /\ Increasing(EntryPositions(d.items, plurals))

\* C13 witness: the catalog's first entry has a misplaced suffix, its second
\* is empty, and the empty-value finding is reported first.
C13_Witness ==
    /\ Len(vresults) >= 1
    /\ fs[vpath].kind = "json" /\ fs[vpath].data.t = "dict"
    /\ Len(fs[vpath].data.items) = 2
    /\ fs[vpath].data.items[1].value = StrVal(<<"x", "_", "o", "n", "e">>)
    /\ fs[vpath].data.items[2].value = StrVal(<<>>)
    /\ Len(vresults[1].errors) = 2
    /\ vresults[1].errors[1].key = fs[vpath].data.items[2].key
    /\ vresults[1].errors[2].key = fs[vpath].data.items[1].key

\* C16: no entry triggers both rules: the keys of a file's findings are
\* pairwise distinct and the findings are no more than the entries.
C16_OneFindingPerKey ==
    \A n \in 1..Len(vresults) :
        (fs[vpath].kind = "json" /\ fs[vpath].data.t = "dict") =>
            LET errors == vresults[n].errors
            IN  /\ \A i, j \in 1..Len(errors) : i # j => errors[i].key # errors[j].key
                /\ Len(errors) <= Len(fs[vpath].data.items)

\* C16 witness: a catalog of an empty value, a misplaced suffix and a valid
\* value has been validated: two findings, for the first two keys.
C16_Witness ==
    /\ Len(vresults) >= 1
    /\ fs[vpath].kind = "json" /\ fs[vpath].data.t = "dict"
    /\ Len(fs[vpath].data.items) = 3
    /\ fs[vpath].data.items[1].value = StrVal(<<>>)
    /\ fs[vpath].data.items[2].value = StrVal(<<"_", "o", "t", "h", "e", "r">>)
    /\ fs[vpath].data.items[3].value = StrVal(<<"H", "i">>)
    /\ Len(vresults[1].errors) = 2
    /\ vresults[1].errors[1].key = fs[vpath].data.items[1].key
    /\ vresults[1].errors[2].key = fs[vpath].data.items[2].key

\* ------------------------------------------------------------ claims about the run of main

\* the entries of a list of filenames that pass both filters, in list order
InScopeEntries(filenames) == SelectSeq(filenames, InScope)

\* C14: every in-scope file of the list is validated, in list order, whatever
\* the outcome for the files before it, and the run terminates.
C14_AllValidatedAndTerminates ==
    /\ [](validated = InScopeEntries(SubSeq(args.filenames, 1, idx - 1)))
    /\ <>(pc = "done" /\ validated = InScopeEntries(args.filenames))

\* C14 witness: the run is over; the first of two in-scope files held
\* malformed JSON and the second was validated after it.
C14_Witness ==
    /\ pc = "done"
    /\ Len(args.filenames) = 2
    /\ InScope(args.filenames[1]) /\ InScope(args.filenames[2])
    /\ FileAt(fs, Path(args.filenames[1])).kind = "malformed"
    /\ validated = args.filenames

FailingEntry(filename) == InScope(filename) /\ FailsValidation(filename)

\* the items main would hold with one item per failing in-scope entry
ItemPerFailingEntry ==
    LET failing == SelectSeq(args.filenames, FailingEntry)
    IN  [i \in 1..Len(failing) |->
            [filename |-> failing[i],
             errors |-> validate_translation_file(fs, Path(failing[i])).errors]]

\* C15: the failing entries main records and prints are exactly one per
\* in-scope input entry whose validation is not ok, in input order, also when
\* the same path occurs more than once in the list.
C15_OneResultPerFailingEntry ==
    pc = "done" =>
        /\ files_with_errors = ItemPerFailingEntry
        /\ stdout = PrintResults(ItemPerFailingEntry)

====
